---- MODULE Spec2Model ----
(***************************************************************************)
(* Meteostanice HW backend: the three variants of server.js kept in the   *)
(* repository.                                                             *)
(*   "energy"    src/server.js          telemetry ingest + virtual energy  *)
(*   "snapshot0" src/unnamed/part_000   latest-payload store               *)
(*   "snapshot1" src/unnamed/part_001   latest-payload store + history     *)
(* A process runs exactly one variant; `variant` is fixed by Init.         *)
(*                                                                         *)
(* Units.  JS numbers that come from the payload are integers in TENTHS    *)
(* (25.1 is 251).  Date.now() is in milliseconds.  Powers are integers in  *)
(* microwatts (floor of the float), energies in microjoules (microwatt x   *)
(* second; 1 Wh = 3 600 000 000 uJ), so sums are exact where the code      *)
(* rounds to the nearest double.                                           *)
(***************************************************************************)
EXTENDS Integers, Sequences, FiniteSets, TLC

VARIABLES
    variant,        \* which server.js variant this process runs
    clock,          \* Date.now() of the host, ms
    steps,          \* number of requests and restarts so far (bounded)
    response,       \* the last HTTP response sent
    state,          \* src/server.js: const state
    lastEnergyTs,   \* src/server.js: let lastEnergyTs
    credited,       \* src/server.js: history of integrateEnergy - the elapsed
                    \* time its calls have credited and the largest timestamp
                    \* they were given
    latestState,    \* part_000 / part_001: let latestState
    latestMeta,     \* part_000 / part_001: let latestMeta
    historyStore,   \* part_001: let historyStore (references into heap)
    heap,           \* part_001: the day-record objects, by reference
    disk            \* part_000 / part_001: the files under DATA_DIR

vars == <<variant, clock, steps, response, state, lastEnergyTs, credited,
          latestState, latestMeta, historyStore, heap, disk>>

(***************************************************************************)
(* Bounds of the model.  The retention caps of the code (2000 samples, 21  *)
(* or 14 days, 300 events) are scaled down so that overflow is reached.    *)
(***************************************************************************)
MaxSteps == 3
MaxSeries == 2
MaxDays == 2
MaxEvents == 2

(***************************************************************************)
(* JavaScript values                                                       *)
(***************************************************************************)
Undef == [t |-> "undefined"]
Null == [t |-> "null"]
NaN == [t |-> "NaN"]
Num(n) == [t |-> "number", n |-> n]
Str(s) == [t |-> "string", s |-> s]
Bool(b) == [t |-> "boolean", b |-> b]
Obj(f) == [t |-> "object", f |-> f]
\* a JS number holding an integer (a timestamp in ms, a count), unscaled
Ms(n) == [t |-> "integer", n |-> n]

\* Number.isFinite(v)
IsFinite(v) == v.t = "number"

\* StringToNumber on the strings the model sends: "" is 0, a decimal literal
\* is its value, anything else is NaN.
StringToNumber(s) ==
    CASE s = "" -> Num(0)
      [] s = "21.5" -> Num(215)
      [] OTHER -> NaN

\* Number(v): ToNumber of ECMAScript
Number(v) ==
    CASE v.t = "undefined" -> NaN
      [] v.t = "null" -> Num(0)
      [] v.t = "boolean" -> Num(IF v.b THEN 10 ELSE 0)
      [] v.t = "number" -> v
      [] v.t = "NaN" -> NaN
      [] v.t = "string" -> StringToNumber(v.s)
      [] OTHER -> NaN

\* ToBoolean(v)
Truthy(v) ==
    CASE v.t = "undefined" -> FALSE
      [] v.t = "null" -> FALSE
      [] v.t = "NaN" -> FALSE
      [] v.t = "boolean" -> v.b
      [] v.t = "number" -> v.n # 0
      [] v.t = "string" -> v.s # ""
      [] OTHER -> TRUE

\* a ?? b
Nullish(a, b) == IF a.t \in {"undefined", "null"} THEN b ELSE a

\* obj[key] of a JS value: undefined on a missing key or a primitive
Get(v, key) ==
    IF v.t = "object" /\ key \in DOMAIN v.f THEN v.f[key] ELSE Undef

\* Math.round of a number in tenths: floor(x + 0.5)
MathRound(x) == ((x + 5) \div 10) * 10

Max2(a, b) == IF a >= b THEN a ELSE b
Min2(a, b) == IF a <= b THEN a ELSE b
clamp(x, a, b) == Max2(a, Min2(b, x))

(***************************************************************************)
(* src/server.js: configuration                                            *)
(***************************************************************************)
enabled == TRUE
PANEL_MAX_W == 3
LUX_FULL == 30000
LUX_MIN_ON == 15
V_BATT_EST_dV == 37
I_ESP_MA == 100
I_FAN_MAX_MA == 200
DUTY_MAX == 255
DT_MAX_MS == 60000
DEADBAND_uW == 50000

\* new Date().toISOString().slice(0, 10): the UTC calendar day, as the number
\* of whole days since the epoch
nowKey(ts) == ts \div 86400000

\* Math.pow(frac, GAMMA) with GAMMA = 1.2, in millionths, for frac = lux/LUX_FULL
\* already clamped to [0, 1]; tabulated (floor of the double) for the
\* illuminances the model sends, lux in tenths.
PowGamma(lux) ==
    CASE lux = 0 -> 0
      [] lux = 150 -> 109
      [] lux = 1800 -> 2156
      [] lux = 9890 -> 16660
      [] lux = 9900 -> 16680
      [] lux = 300000 -> 1000000

\* estimateSolarInW with the noise-floor comparison turned round
estimateSolarInWFloorInverted(lux) ==
    IF ~enabled THEN 0
    ELSE IF ~IsFinite(lux) \/ lux.n > LUX_MIN_ON * 10 THEN 0
    ELSE PANEL_MAX_W * PowGamma(clamp(lux.n, 0, LUX_FULL * 10))

\* estimateSolarInW(lux), microwatts
estimateSolarInW(lux) ==
    IF ~enabled THEN 0
    ELSE IF ~IsFinite(lux) \/ lux.n < LUX_MIN_ON * 10 THEN 0
    ELSE PANEL_MAX_W * PowGamma(clamp(lux.n, 0, LUX_FULL * 10))

\* estimateLoadW without the always-on current of the ESP32
estimateLoadWFanOnly(fanDuty) ==
    IF ~enabled THEN 0
    ELSE LET d == IF IsFinite(fanDuty) THEN clamp(fanDuty.n, 0, DUTY_MAX * 10) ELSE 0
             iFan == (I_FAN_MAX_MA * 100 * d) \div (DUTY_MAX * 10)
         IN  V_BATT_EST_dV * iFan

\* estimateLoadW(fanDuty), microwatts:
\* V_BATT_EST * (I_ESP_MA + I_FAN_MAX_MA * d / 255) / 1000
estimateLoadW(fanDuty) ==
    IF ~enabled THEN 0
    ELSE LET d == IF IsFinite(fanDuty) THEN clamp(fanDuty.n, 0, DUTY_MAX * 10) ELSE 0
             iEsp == I_ESP_MA * 100
             iFan == (I_FAN_MAX_MA * 100 * d) \div (DUTY_MAX * 10)
         IN  V_BATT_EST_dV * (iEsp + iFan)

\* pushSeries that cuts the array at its end: the newest samples are lost
pushSeriesDropNewest(arr, t, v, max) ==
    IF ~IsFinite(v) THEN arr
    ELSE LET pushed == Append(arr, [t |-> t, v |-> v.n])
         IN  IF Len(pushed) > max THEN SubSeq(pushed, 1, max) ELSE pushed

\* pushSeries(arr, v, max) with t = tsNow()
pushSeries(arr, t, v, max) ==
    IF ~IsFinite(v) THEN arr
    ELSE LET pushed == Append(arr, [t |-> t, v |-> v.n])
         IN  IF Len(pushed) > max
             THEN SubSeq(pushed, Len(pushed) - max + 1, Len(pushed))
             ELSE pushed

\* logEvent that cuts the array at its end: the newest entries are lost
logEventDropNewest(ev, ts, key, message, level) ==
    LET pushed == Append(ev, [ts |-> ts, key |-> key, action |-> "INGEST",
                              level |-> level, message |-> message])
    IN  IF Len(pushed) > MaxEvents THEN SubSeq(pushed, 1, MaxEvents) ELSE pushed

\* logEvent(key, message, level, meta) on the events array ev at time ts
logEvent(ev, ts, key, message, level) ==
    LET pushed == Append(ev, [ts |-> ts, key |-> key, action |-> "INGEST",
                              level |-> level, message |-> message])
    IN  IF Len(pushed) > MaxEvents
        THEN SubSeq(pushed, Len(pushed) - MaxEvents + 1, Len(pushed))
        ELSE pushed

\* integrateEnergy that adds the step to the stored net instead of
\* recomputing it from the two totals (the step's outWh is subtracted from
\* nothing)
integrateEnergyStaleNet(st, last, pinW, poutW, nowTs) ==
    LET dtS == Min2(Max2(0, nowTs - last), DT_MAX_MS) \div 1000
        t == st.memory.today.totals
        eIn == t.energyInWh + pinW * dtS
        eOut == t.energyOutWh + poutW * dtS
        eNet == t.energyNetWh + pinW * dtS
    IN  [state |->
            [st EXCEPT !.memory.today.totals =
                           [energyInWh |-> eIn, energyOutWh |-> eOut, energyNetWh |-> eNet],
                       !.energy.totals =
                           [wh_in_today |-> eIn, wh_out_today |-> eOut, wh_net_today |-> eNet],
                       !.device.power.balanceWh = eNet],
         lastEnergyTs |-> nowTs]

\* integrateEnergy without the Math.max(0, ...) floor on the elapsed time: a
\* clock set back yields a negative step
integrateEnergyNoFloor(st, last, pinW, poutW, nowTs) ==
    LET dtS == Min2(nowTs - last, DT_MAX_MS) \div 1000
        t == st.memory.today.totals
        eIn == t.energyInWh + pinW * dtS
        eOut == t.energyOutWh + poutW * dtS
        eNet == eIn - eOut
    IN  [state |->
            [st EXCEPT !.memory.today.totals =
                           [energyInWh |-> eIn, energyOutWh |-> eOut, energyNetWh |-> eNet],
                       !.energy.totals =
                           [wh_in_today |-> eIn, wh_out_today |-> eOut, wh_net_today |-> eNet],
                       !.device.power.balanceWh = eNet],
         lastEnergyTs |-> nowTs]

\* integrateEnergy without the Math.min(dtMs, 60_000) ceiling on the elapsed
\* time
integrateEnergyNoCeiling(st, last, pinW, poutW, nowTs) ==
    LET dtS == Max2(0, nowTs - last) \div 1000
        t == st.memory.today.totals
        eIn == t.energyInWh + pinW * dtS
        eOut == t.energyOutWh + poutW * dtS
        eNet == eIn - eOut
    IN  [state |->
            [st EXCEPT !.memory.today.totals =
                           [energyInWh |-> eIn, energyOutWh |-> eOut, energyNetWh |-> eNet],
                       !.energy.totals =
                           [wh_in_today |-> eIn, wh_out_today |-> eOut, wh_net_today |-> eNet],
                       !.device.power.balanceWh = eNet],
         lastEnergyTs |-> nowTs]

\* integrateEnergy without the writes to state.energy.totals and
\* state.device.power.balanceWh
integrateEnergyNoMirror(st, last, pinW, poutW, nowTs) ==
    LET dtS == Min2(Max2(0, nowTs - last), DT_MAX_MS) \div 1000
        t == st.memory.today.totals
        eIn == t.energyInWh + pinW * dtS
        eOut == t.energyOutWh + poutW * dtS
    IN  [state |->
            [st EXCEPT !.memory.today.totals =
                           [energyInWh |-> eIn, energyOutWh |-> eOut,
                            energyNetWh |-> eIn - eOut]],
         lastEnergyTs |-> nowTs]

\* integrateEnergy(pinW, poutW, nowTs) on state st with baseline last
integrateEnergy(st, last, pinW, poutW, nowTs) ==
    LET dtMs == Max2(0, nowTs - last)
        dtClampedMs == Min2(dtMs, DT_MAX_MS)
        dtS == dtClampedMs \div 1000
        inWh == pinW * dtS
        outWh == poutW * dtS
        t == st.memory.today.totals
        eIn == t.energyInWh + inWh
        eOut == t.energyOutWh + outWh
        eNet == eIn - eOut
    IN  [state |->
            [st EXCEPT !.memory.today.totals =
                           [energyInWh |-> eIn, energyOutWh |-> eOut, energyNetWh |-> eNet],
                       !.energy.totals =
                           [wh_in_today |-> eIn, wh_out_today |-> eOut, wh_net_today |-> eNet],
                       !.device.power.balanceWh = eNet],
         lastEnergyTs |-> nowTs]

EmptyObject == Obj([k \in {} |-> Undef])

\* the fresh day record of applyIngest and of the initial state
EmptyToday(key) ==
    [key |-> key, temperature |-> <<>>, light |-> <<>>, brainRisk |-> <<>>,
     energyIn |-> <<>>, energyOut |-> <<>>,
     totals |-> [energyInWh |-> 0, energyOutWh |-> 0, energyNetWh |-> 0]]

\* const state = {...}, constructed at time ts (fields no handler writes are
\* left out: cycle, rolling24h, deadbandW, battery, config, identity,
\* voltageV, currentA, signal_quality)
InitialState(ts) ==
    [time |-> [now |-> ts, isDay |-> TRUE],
     world |-> [environment |->
                    [light |-> Null, lightLux |-> Null, lux |-> Null,
                     solarPotentialW |-> Null,
                     boxTempC |-> Null, indoorTempC |-> Null, indoorHumPct |-> Null,
                     outdoorTempC |-> Null, airTempC |-> Null,
                     scenario |-> "HW", stressPattern |-> "HW", phase |-> "HW"],
                time |-> [now |-> ts, isDay |-> TRUE]],
     energy |-> [ina_in |-> [p_raw |-> 0, p_ema |-> 0],
                 ina_out |-> [p_raw |-> 0, p_ema |-> 0],
                 totals |-> [wh_in_today |-> 0, wh_out_today |-> 0, wh_net_today |-> 0],
                 states |-> [power_state |-> "IDLE", power_path_state |-> "UNKNOWN"]],
     device |-> [temperature |-> Null, humidity |-> Null, light |-> Null, fan |-> FALSE,
                 sensors |-> [dht22 |-> [tempC |-> Null, humidity |-> Null],
                              ds18b20 |-> [tempC |-> Null],
                              bh1750 |-> [lux |-> Null]],
                 power |-> [solarInW |-> 0, loadW |-> 0, balanceWh |-> 0,
                            collectionIntervalSec |-> 10]],
     memory |-> [today |-> EmptyToday(nowKey(ts)), days |-> <<>>],
     events |-> <<>>,
     brain |-> [mode |-> "HW", message |-> [text |-> "HW"]]]

\* the classification with its branches in the wrong order: the input power
\* is tested alone first
ClassifyInputFirst(pinW, poutW) ==
    IF pinW > DEADBAND_uW
    THEN [power_state |-> "CHARGING", power_path_state |-> "SOLAR_TO_BATT"]
    ELSE IF poutW > DEADBAND_uW
    THEN [power_state |-> "DISCHARGING", power_path_state |-> "BATT_TO_LOAD"]
    ELSE [power_state |-> "IDLE", power_path_state |-> "UNKNOWN"]

\* the power_state / power_path_state pair of applyIngest
Classify(pinW, poutW) ==
    IF pinW > DEADBAND_uW /\ poutW > DEADBAND_uW
    THEN [power_state |-> "MIXED", power_path_state |-> "SOLAR_TO_LOAD"]
    ELSE IF pinW > DEADBAND_uW
    THEN [power_state |-> "CHARGING", power_path_state |-> "SOLAR_TO_BATT"]
    ELSE IF poutW > DEADBAND_uW
    THEN [power_state |-> "DISCHARGING", power_path_state |-> "BATT_TO_LOAD"]
    ELSE [power_state |-> "IDLE", power_path_state |-> "UNKNOWN"]

\* a rollover whose splice cuts days at its end: the newest record is lost
rolloverDropNewest(st, key) ==
    LET pushedDays == Append(st.memory.days, st.memory.today)
    IN  [st EXCEPT
           !.memory.days =
               IF Len(pushedDays) > MaxDays THEN SubSeq(pushedDays, 1, MaxDays)
               ELSE pushedDays,
           !.memory.today = EmptyToday(key),
           !.energy.totals =
               [wh_in_today |-> 0, wh_out_today |-> 0, wh_net_today |-> 0]]

\* a rollover whose fresh today keeps the key of the record it closes
rolloverKeepsKey(st, key) ==
    LET pushedDays == Append(st.memory.days, st.memory.today)
    IN  [st EXCEPT
           !.memory.days =
               IF Len(pushedDays) > MaxDays
               THEN SubSeq(pushedDays, Len(pushedDays) - MaxDays + 1, Len(pushedDays))
               ELSE pushedDays,
           !.memory.today = EmptyToday(st.memory.today.key),
           !.energy.totals =
               [wh_in_today |-> 0, wh_out_today |-> 0, wh_net_today |-> 0]]

\* the day rollover of applyIngest (the body of `if (state.memory.today.key
\* !== key)`): today joins days, days keeps its newest MaxDays records, today
\* and the mirrored totals start again
rollover(st, key) ==
    LET pushedDays == Append(st.memory.days, st.memory.today)
    IN  [st EXCEPT
           !.memory.days =
               IF Len(pushedDays) > MaxDays
               THEN SubSeq(pushedDays, Len(pushedDays) - MaxDays + 1, Len(pushedDays))
               ELSE pushedDays,
           !.memory.today = EmptyToday(key),
           !.energy.totals =
               [wh_in_today |-> 0, wh_out_today |-> 0, wh_net_today |-> 0]]

\* a rollover that leaves the integrator baseline where it was
rolloverBaselineKept(last, now) == last

\* `lastEnergyTs = now` of the day rollover: the integrator baseline after a
\* rollover at time now, whatever it was before
rolloverBaseline(last, now) == now

\* the sticky writes of applyIngest: a stored copy is overwritten only when
\* the parsed value is finite
Sticky(old, v) == IF IsFinite(v) THEN v ELSE old
StickyRound(old, v) == IF IsFinite(v) THEN Num(MathRound(v.n)) ELSE old

\* dtClampedMs of the integrateEnergy call that applyIngest makes
\* at Date.now() = now: the elapsed time since the baseline, which a day
\* rollover has just moved to now, floored at 0 and capped at 60 s
dtClampedMs(now) ==
    LET rolled == state.memory.today.key # nowKey(now)
        last == IF rolled THEN rolloverBaseline(lastEnergyTs, now) ELSE lastEnergyTs
    IN  Min2(Max2(0, now - last), DT_MAX_MS)

\* applyIngest that hands control back after its sticky-field writes (lines
\* 184-229), before the rollover, the samples, the energy block and the
\* integration
applyIngestStickyOnly(payload, now) ==
    LET envRaw == Get(payload, "env")
        env == IF Truthy(envRaw) THEN envRaw ELSE EmptyObject
        boxTempC == Number(Get(env, "boxTempC"))
        humPct == Number(Get(env, "indoorHumPct"))
        outTempC == Number(Get(env, "outdoorTempC"))
        lux == Number(Nullish(Nullish(Get(env, "lightLux"), Get(env, "lux")),
                              Get(env, "light")))
        isNight == Truthy(Get(env, "isNight"))
        we == state.world.environment
        dev == state.device
    IN  [state |->
            [state EXCEPT
               !.time.now = now,
               !.world.environment.boxTempC = Sticky(we.boxTempC, boxTempC),
               !.world.environment.indoorTempC = Sticky(we.indoorTempC, boxTempC),
               !.world.environment.indoorHumPct = Sticky(we.indoorHumPct, humPct),
               !.world.environment.outdoorTempC = Sticky(we.outdoorTempC, outTempC),
               !.world.environment.airTempC = Sticky(we.airTempC, outTempC),
               !.world.environment.light = StickyRound(we.light, lux),
               !.world.environment.lightLux = Sticky(we.lightLux, lux),
               !.world.environment.lux = Sticky(we.lux, lux),
               !.world.environment.phase = IF isNight THEN "NIGHT" ELSE "DAY",
               !.world.time.now = now,
               !.world.time.isDay = ~isNight,
               !.device.temperature = Sticky(dev.temperature, boxTempC),
               !.device.humidity = Sticky(dev.humidity, humPct),
               !.device.light = StickyRound(dev.light, lux)],
         lastEnergyTs |-> lastEnergyTs]

\* applyIngest(payload) at Date.now() = now; yields the new state and the new
\* lastEnergyTs
applyIngest(payload, now) ==
    LET envRaw == Get(payload, "env")
        env == IF Truthy(envRaw) THEN envRaw ELSE EmptyObject
        fanRaw == Get(payload, "fan")
        fan == IF Truthy(fanRaw) THEN fanRaw ELSE EmptyObject
        duty == Number(Get(fan, "duty"))
        boxTempC == Number(Get(env, "boxTempC"))
        humPct == Number(Get(env, "indoorHumPct"))
        outTempC == Number(Get(env, "outdoorTempC"))
        lux == Number(Nullish(Nullish(Get(env, "lightLux"), Get(env, "lux")),
                              Get(env, "light")))
        isNight == Truthy(Get(env, "isNight"))
        we == state.world.environment
        dev == state.device
        \* lines 184-229: time, sticky environment and device fields
        s1 == [state EXCEPT
                 !.time.now = now,
                 !.world.environment.boxTempC = Sticky(we.boxTempC, boxTempC),
                 !.world.environment.indoorTempC = Sticky(we.indoorTempC, boxTempC),
                 !.world.environment.indoorHumPct = Sticky(we.indoorHumPct, humPct),
                 !.world.environment.outdoorTempC = Sticky(we.outdoorTempC, outTempC),
                 !.world.environment.airTempC = Sticky(we.airTempC, outTempC),
                 !.world.environment.light = StickyRound(we.light, lux),
                 !.world.environment.lightLux = Sticky(we.lightLux, lux),
                 !.world.environment.lux = Sticky(we.lux, lux),
                 !.world.environment.scenario = "HW",
                 !.world.environment.stressPattern = "HW",
                 !.world.environment.phase = IF isNight THEN "NIGHT" ELSE "DAY",
                 !.world.time.now = now,
                 !.world.time.isDay = ~isNight,
                 !.device.temperature = Sticky(dev.temperature, boxTempC),
                 !.device.humidity = Sticky(dev.humidity, humPct),
                 !.device.light = StickyRound(dev.light, lux),
                 !.device.fan = IF IsFinite(duty) THEN duty.n > 0 ELSE dev.fan,
                 !.device.sensors.dht22.tempC = Sticky(dev.sensors.dht22.tempC, boxTempC),
                 !.device.sensors.dht22.humidity = Sticky(dev.sensors.dht22.humidity, humPct),
                 !.device.sensors.ds18b20.tempC = Sticky(dev.sensors.ds18b20.tempC, outTempC),
                 !.device.sensors.bh1750.lux = Sticky(dev.sensors.bh1750.lux, lux)]
        \* lines 231-250: day rollover
        key == nowKey(now)
        rolled == s1.memory.today.key # key
        s2 == IF rolled THEN rollover(s1, key) ELSE s1
        last2 == IF rolled THEN rolloverBaseline(lastEnergyTs, now) ELSE lastEnergyTs
        \* lines 252-284: samples, estimates, classification
        pinW == estimateSolarInW(lux)
        poutW == estimateLoadW(duty)
        s3 == [s2 EXCEPT
                 !.memory.today.temperature = pushSeries(@, now, boxTempC, MaxSeries),
                 !.memory.today.light = pushSeries(@, now, lux, MaxSeries),
                 !.world.environment.solarPotentialW = Num(pinW),
                 !.device.power.solarInW = pinW,
                 !.device.power.loadW = poutW,
                 !.device.power.collectionIntervalSec = 10,
                 !.energy.ina_in = [p_raw |-> pinW, p_ema |-> pinW],
                 !.energy.ina_out = [p_raw |-> poutW, p_ema |-> poutW],
                 !.energy.states = Classify(pinW, poutW),
                 !.memory.today.energyIn = pushSeries(@, now, Num(pinW), MaxSeries),
                 !.memory.today.energyOut = pushSeries(@, now, Num(poutW), MaxSeries)]
        \* line 286
        r4 == integrateEnergy(s3, last2, pinW, poutW, now)
        \* lines 288-291
        s5 == [r4.state EXCEPT
                 !.brain.message.text = IF isNight THEN "Noc" ELSE "Den",
                 !.brain.mode = IF isNight THEN "NIGHT" ELSE "DAY"]
    IN  [state |-> s5, lastEnergyTs |-> r4.lastEnergyTs]

(***************************************************************************)
(* src/unnamed/part_000 and part_001: the latest-payload store             *)
(***************************************************************************)

\* length in bytes of the strings the model uses (all ASCII)
StrLen(s) ==
    CASE s = "" -> 0
      [] s \in {"lux"} -> 3
      [] s \in {"risk", "21.5"} -> 4
      [] s \in {"world", "brain", "p_raw", "today"} -> 5
      [] s \in {"energy", "ina_in", "memory"} -> 6
      [] s \in {"ina_out"} -> 7
      [] s \in {"lightLux", "airTempC"} -> 8
      [] s \in {"environment"} -> 11
      [] s \in {"outdoorTempC"} -> 12
      [] OTHER -> 3

RECURSIVE Digits(_)
Digits(k) == IF k < 10 THEN 1 ELSE 1 + Digits(k \div 10)

\* length of Number.prototype.toString of a number held in tenths
NumLen(n) ==
    LET a == IF n < 0 THEN 0 - n ELSE n
    IN  (IF n < 0 THEN 1 ELSE 0) + Digits(a \div 10) + (IF a % 10 # 0 THEN 2 ELSE 0)

RECURSIVE JsonLen(_)
RECURSIVE JsonMembersLen(_, _)
\* Buffer.byteLength(JSON.stringify(v), "utf8")
JsonLen(v) ==
    CASE v.t = "null" -> 4
      [] v.t = "boolean" -> IF v.b THEN 4 ELSE 5
      [] v.t = "number" -> NumLen(v.n)
      [] v.t = "integer" -> Digits(v.n)
      [] v.t = "string" -> StrLen(v.s) + 2
      [] v.t = "object" ->
            2 + JsonMembersLen(v.f, DOMAIN v.f)
              + (IF DOMAIN v.f = {} THEN 0 ELSE Cardinality(DOMAIN v.f) - 1)
      [] OTHER -> 4
JsonMembersLen(f, keys) ==
    IF keys = {} THEN 0
    ELSE LET k == CHOOSE x \in keys : TRUE
         IN  StrLen(k) + 3 + JsonLen(f[k]) + JsonMembersLen(f, keys \ {k})

\* a calendar day as a day-key string "YYYY-MM-DD"
Key(d) == [t |-> "daykey", d |-> d]

\* toPragueDayKey(tsMs): the Europe/Prague calendar day (CET, UTC+1; summer
\* time is not modelled)
toPragueDayKey(tsMs) == Key((tsMs + 3600000) \div 86400000)

\* the day record literal of historyStore.today and of ensureDay
EmptyDay(key) ==
    [key |-> key, temperature |-> <<>>, light |-> <<>>, energyIn |-> <<>>,
     energyOut |-> <<>>, brainRisk |-> <<>>, totals |-> EmptyObject]

NoKeys == [k \in {} |-> 0]

\* let latestMeta / let historyStore as first assigned; heap[1] is the record
\* literal of historyStore.today
InitialMeta == [receivedAt |-> Null, bytes |-> 0]
InitialHistory == [today |-> 1, days |-> <<>>, byKey |-> NoKeys]
InitialHeap == <<EmptyDay(Null)>>
InitialDisk == [state |-> Null, history |-> Null]

\* saveJsonSafe(filePath, obj): writes the serialized object unless the write
\* throws (ok = FALSE: the volume is not writable during this request), in
\* which case the file is left as it was
saveJsonSafe(file, obj, ok) == IF ok THEN obj ELSE file

\* the guard without its !payload half: typeof null is "object"
InvalidPayloadTypeofOnly(payload) == payload.t \notin {"object", "null"}

\* the guard of app.post("/ingest"): !payload || typeof payload !== "object"
\* (typeof null is "object"; null is caught by !payload)
InvalidPayload(payload) ==
    ~Truthy(payload) \/ payload.t \notin {"object", "null"}

\* pick(obj, paths, fallback): the walk along one dotted path; yields
\* Undef when the walk breaks off (ok = false)
RECURSIVE Walk(_, _)
Walk(cur, parts) ==
    IF parts = <<>> THEN cur
    ELSE IF ~Truthy(cur) \/ cur.t # "object" \/ Head(parts) \notin DOMAIN cur.f
    THEN Undef
    ELSE Walk(cur.f[Head(parts)], Tail(parts))

RECURSIVE pick(_, _, _)
pick(obj, paths, fallback) ==
    IF paths = <<>> THEN fallback
    ELSE LET cur == Walk(obj, Head(paths))
         IN  IF cur.t \notin {"undefined", "null"} THEN cur
             ELSE pick(obj, Tail(paths), fallback)

\* clampHistoryLen(arr, maxLen)
clampHistoryLen(arr, maxLen) ==
    LET extra == Len(arr) - maxLen
    IN  IF extra > 0 THEN SubSeq(arr, extra + 1, Len(arr)) ELSE arr

\* appendPoint(dayObj, seriesName, t, v)
appendPoint(dayObj, seriesName, t, v) ==
    IF ~IsFinite(v) THEN dayObj
    ELSE [dayObj EXCEPT ![seriesName] =
             clampHistoryLen(Append(@, [t |-> t, v |-> v.n]), MaxSeries)]

\* ensureDay(key) on historyStore hs and heap hp; yields both and the
\* reference of the day record
ensureDay(hs, hp, key) ==
    IF key.d \in DOMAIN hs.byKey
    THEN [historyStore |-> hs, heap |-> hp, day |-> hs.byKey[key.d]]
    ELSE LET ref == Len(hp) + 1
             hp1 == Append(hp, EmptyDay(key))
             byKey1 == [k \in DOMAIN hs.byKey \cup {key.d} |->
                           IF k = key.d THEN ref ELSE hs.byKey[k]]
             days1 == Append(hs.days, ref)
             over == Len(days1) - MaxDays
             removed == IF over > 0 THEN {days1[i] : i \in 1..over} ELSE {}
             days2 == IF over > 0 THEN SubSeq(days1, over + 1, Len(days1)) ELSE days1
             gone == {k \in DOMAIN byKey1 :
                        \E d \in removed :
                            /\ Truthy(hp1[d].key)
                            /\ hp1[d].key.d = k
                            /\ byKey1[k] = d}
             byKey2 == [k \in DOMAIN byKey1 \ gone |-> byKey1[k]]
         IN  [historyStore |-> [hs EXCEPT !.days = days2, !.byKey = byKey2],
              heap |-> hp1, day |-> ref]

TemperaturePaths ==
    << <<"world", "environment", "outdoorTempC">>,
       <<"world", "environment", "airTempC">>,
       <<"world", "environment", "outTempC">>,
       <<"world", "environment", "temperature">>,
       <<"world", "environment", "temperatureC">>,
       <<"sensors", "outdoorTempC">>,
       <<"sensors", "ds18b20C">>,
       <<"environment", "outdoorTempC">>,
       <<"environment", "temperature">> >>
LuxPaths ==
    << <<"world", "environment", "lightLux">>,
       <<"world", "environment", "lux">>,
       <<"world", "environment", "light">>,
       <<"environment", "lightLux">>,
       <<"environment", "light">>,
       <<"lux">> >>
PInPaths ==
    << <<"energy", "ina_in", "p_raw">>,
       <<"energy", "ina_in", "p_ema">>,
       <<"energy", "solarW">>,
       <<"energy", "inW">>,
       <<"energy", "pInW">>,
       <<"ina_in", "p_raw">>,
       <<"inaIn", "p_raw">> >>
POutPaths ==
    << <<"energy", "ina_out", "p_raw">>,
       <<"energy", "ina_out", "p_ema">>,
       <<"energy", "loadW">>,
       <<"energy", "outW">>,
       <<"energy", "pOutW">>,
       <<"ina_out", "p_raw">>,
       <<"inaOut", "p_raw">> >>
RiskPaths ==
    << <<"brain", "risk">>, <<"brain", "riskScore">>, <<"brain", "risk_now">>,
       <<"risk">> >>

\* Math.abs
MathAbs(x) == IF x < 0 THEN 0 - x ELSE x

\* buildServerHistoryFromPayload(payload) at Date.now() = now; yields the new
\* historyStore and heap
buildServerHistoryFromPayload(payload, now) ==
    LET key == toPragueDayKey(now)
        e == ensureDay(historyStore, heap, key)
        hs == [e.historyStore EXCEPT !.today = e.day]
        tV == Number(pick(payload, TemperaturePaths, Null))
        lV == Number(pick(payload, LuxPaths, Null))
        inV == Number(pick(payload, PInPaths, Null))
        outVraw == Number(pick(payload, POutPaths, Null))
        outV == IF IsFinite(outVraw) THEN Num(MathAbs(outVraw.n)) ELSE NaN
        rV == Number(pick(payload, RiskPaths, Null))
        d1 == appendPoint(e.heap[e.day], "temperature", now, tV)
        d2 == appendPoint(d1, "light", now, lV)
        d3 == appendPoint(d2, "energyIn", now, inV)
        d4 == appendPoint(d3, "energyOut", now, outV)
        d5 == appendPoint(d4, "brainRisk", now, rV)
        samples == Max2(Len(d5.temperature),
                     Max2(Len(d5.light),
                       Max2(Len(d5.energyIn),
                         Max2(Len(d5.energyOut), Len(d5.brainRisk)))))
        d6 == [d5 EXCEPT !.totals =
                  Obj([lastTs |-> Ms(now), samples |-> Ms(samples)])]
    IN  [historyStore |-> hs, heap |-> [e.heap EXCEPT ![e.day] = d6]]

\* the object saveHistoryToDisk serializes: today and days by value, without
\* the byKey cache
HistoryJson(hs, hp) ==
    [today |-> hp[hs.today], days |-> [i \in 1..Len(hs.days) |-> hp[hs.days[i]]]]

\* loadLatestFromDisk() of part_001 at boot time now, on the freshly
\* initialised module state; JSON.parse allocates a new object per record
loadLatestFromDisk(dk, now) ==
    LET st == dk.state
        h == dk.history
        loaded == h # Null
        hp == IF loaded THEN InitialHeap \o <<h.today>> \o h.days ELSE InitialHeap
        dayRefs == IF loaded THEN [i \in 1..Len(h.days) |-> i + 2] ELSE <<>>
        todayRef == IF loaded THEN 2 ELSE 1
        dayKeys == {hp[dayRefs[i]].key.d : i \in {j \in 1..Len(dayRefs) :
                                                    Truthy(hp[dayRefs[j]].key)}}
        todayKeys == IF Truthy(hp[todayRef].key) THEN {hp[todayRef].key.d} ELSE {}
        LastWith(k) == CHOOSE i \in 1..Len(dayRefs) :
                          /\ Truthy(hp[dayRefs[i]].key) /\ hp[dayRefs[i]].key.d = k
                          /\ \A j \in (i + 1)..Len(dayRefs) :
                                ~(Truthy(hp[dayRefs[j]].key) /\ hp[dayRefs[j]].key.d = k)
        byKey == [k \in dayKeys \cup todayKeys |->
                     IF k \in todayKeys THEN todayRef ELSE dayRefs[LastWith(k)]]
    IN  [latestState |-> IF Truthy(st) THEN st ELSE Null,
         latestMeta |-> IF Truthy(st)
                        THEN [receivedAt |-> Ms(now), bytes |-> JsonLen(st)]
                        ELSE InitialMeta,
         historyStore |-> IF loaded
                          THEN [today |-> todayRef, days |-> dayRefs, byKey |-> byKey]
                          ELSE InitialHistory,
         heap |-> hp]

\* loadLatestFromDisk() of part_000
loadLatestFromDisk0(dk, now) ==
    IF dk.state # Null
    THEN [latestState |-> dk.state,
          latestMeta |-> [receivedAt |-> Ms(now), bytes |-> JsonLen(dk.state)]]
    ELSE [latestState |-> Null, latestMeta |-> InitialMeta]

(***************************************************************************)
(* Inputs                                                                  *)
(***************************************************************************)
\* time that passes between two requests, ms: none, 30 s, 90 s, a day, and a
\* host clock set back by 30 s
ClockSteps == {0, 30000, 90000, 86400000, 0 - 30000}

\* request bodies that are no JSON object: none, null, a string, a number
NonObjects == {Undef, Null, Str("abc"), Num(50)}

\* time between two requests to part_000 / part_001, ms
StoreClockSteps == {30000, 86400000}

\* request bodies of the ESP32 for src/server.js
\* a full reading at full-scale illuminance (LUX_FULL) with the fan off
SunPayload ==
    Obj([env |-> Obj([boxTempC |-> Num(251), indoorHumPct |-> Num(520),
                      outdoorTempC |-> Num(0 - 35), lightLux |-> Num(300000),
                      isNight |-> Bool(FALSE)]),
         fan |-> Obj([duty |-> Num(0)])])
\* a reading whose fields are null, empty, non-numeric or shadowed by a
\* non-numeric alias, with the duty sent as a string
BadPayload ==
    Obj([env |-> Obj([boxTempC |-> Null, indoorHumPct |-> Str(""),
                      outdoorTempC |-> Str("abc"), lightLux |-> Str("abc"),
                      lux |-> Num(9890), isNight |-> Bool(TRUE)]),
         fan |-> Obj([duty |-> Str("21.5")])])
\* darkness, no fan object
DarkPayload == Obj([env |-> Obj([lightLux |-> Null, light |-> Num(0)])])

EnergyPayloads == {SunPayload, BadPayload, DarkPayload}

\* request bodies for part_000 / part_001
\* every tracked metric under its first alias
FullPayload ==
    Obj([world |-> Obj([environment |->
                          Obj([outdoorTempC |-> Num(234), lightLux |-> Num(1800)])]),
         energy |-> Obj([ina_in |-> Obj([p_raw |-> Num(15)]),
                         ina_out |-> Obj([p_raw |-> Num(0 - 4)])]),
         brain |-> Obj([risk |-> Num(120)])])
\* a non-numeric temperature shadowing a numeric alias, a null illuminance
\* before a numeric alias, an empty-string power, no load power, brain null
PartialPayload ==
    Obj([world |-> Obj([environment |->
                          Obj([outdoorTempC |-> Str("abc"), airTempC |-> Num(50),
                               lightLux |-> Null, lux |-> Num(300000)])]),
         energy |-> Obj([ina_in |-> Obj([p_raw |-> Str("")])]),
         brain |-> Null])
\* a payload that brings its own memory object
MemoryPayload == Obj([memory |-> Obj([today |-> Null]), lux |-> Num(50)])

StorePayloads == {EmptyObject, FullPayload, PartialPayload, MemoryPayload}

NoResponse == [status |-> 0, route |-> "none"]

\* the 400 of the guard of app.post("/ingest") in part_000 / part_001
invalidResponse ==
    [status |-> 400, route |-> "POST /ingest",
     body |-> [ok |-> FALSE, error |-> "Invalid JSON payload"]]

\* an acknowledgement that reports a failed write of latest-state.json as a
\* server error
ingestResponseIfWritten(meta, written) ==
    IF written
    THEN [status |-> 200, route |-> "POST /ingest",
          body |-> [ok |-> TRUE, stored |-> TRUE, bytes |-> meta.bytes,
                    receivedAt |-> meta.receivedAt]]
    ELSE [status |-> 500, route |-> "POST /ingest",
          body |-> [ok |-> FALSE, error |-> "persist failed"]]

\* the tail of app.post("/ingest") in part_000 / part_001:
\* saveLatestToDisk(payload), whose result `written` is dropped, then the
\* acknowledgement
ingestResponse(meta, written) ==
    [status |-> 200, route |-> "POST /ingest",
     body |-> [ok |-> TRUE, stored |-> TRUE, bytes |-> meta.bytes,
               receivedAt |-> meta.receivedAt]]

(***************************************************************************)
(* part_001: the read view                                                 *)
(***************************************************************************)
\* a day record and an array of day records as they appear inside a JS
\* object (the response is serialized, so they are held by value)
Day(rec) == [t |-> "day", rec |-> rec]
Arr(a) == [t |-> "array", a |-> a]

\* Array.isArray(v)
IsArray(v) == v.t = "array"

\* { ...obj, k: extra[k] } for the keys k of extra
AddKeys(obj, extra) ==
    Obj([k \in DOMAIN obj.f \cup DOMAIN extra |->
            IF k \in DOMAIN extra THEN extra[k] ELSE obj.f[k]])

\* the literal { key: null, temperature: [], ..., totals: {} } of withUiCompat
Skeleton == Day(EmptyDay(Null))

\* Array.isArray(today?.name) ? today.name.length : 0
SeriesCount(today, name) ==
    IF today.t = "day" THEN Len(today.rec[name])
    ELSE LET v == Get(today, name) IN IF IsArray(v) THEN Len(v.a) ELSE 0

\* today?.key ?? null
DayKeyOf(today) ==
    IF today.t = "day" THEN today.rec.key ELSE Nullish(Get(today, "key"), Null)

\* the _historyDebug object of withUiCompat
historyDebug(today, daysCount, source) ==
    Obj([dayKey |-> DayKeyOf(today),
         counts |-> Obj([temperature |-> Ms(SeriesCount(today, "temperature")),
                         light |-> Ms(SeriesCount(today, "light")),
                         energyIn |-> Ms(SeriesCount(today, "energyIn")),
                         energyOut |-> Ms(SeriesCount(today, "energyOut")),
                         brainRisk |-> Ms(SeriesCount(today, "brainRisk"))]),
         daysCount |-> Ms(daysCount),
         source |-> Str(source)])

\* makeEmptyState() at Date.now() = now
makeEmptyState(now) ==
    Obj([time |-> Obj([now |-> Ms(now), isDay |-> Bool(TRUE)]),
         world |-> Obj([environment |->
                     Obj([lightLux |-> Num(0), lux |-> Num(0), boxTempC |-> Null,
                          indoorTempC |-> Null, indoorHumPct |-> Null,
                          outdoorTempC |-> Null, airTempC |-> Null,
                          solarPotentialW |-> Num(0), scenario |-> Str("WAITING"),
                          phase |-> Str("WAITING")])]),
         energy |-> Obj([ina_in |-> Obj([p_raw |-> Num(0), p_ema |-> Num(0)]),
                         ina_out |-> Obj([p_raw |-> Num(0), p_ema |-> Num(0)]),
                         states |-> Obj([power_state |-> Str("WAITING"),
                                         power_path_state |-> Str("WAITING")]),
                         totals |-> Obj([wh_in_today |-> Num(0), wh_out_today |-> Num(0),
                                         wh_net_today |-> Num(0)])]),
         brain |-> Obj([risk |-> Num(0), conf |-> Num(0), mode |-> Str("WAITING"),
                        batterySafe |-> Str("WAITING")])])

\* `base` of app.get("/state") is the stored object itself, not a copy of it
spreadAlias(obj) == [ref |-> "latestState", obj |-> obj]

\* { ...latestState }: a new object (identity "copy") with the own keys of
\* the stored one (identity "latestState")
spread(obj) == [ref |-> "copy", obj |-> obj]

\* withUiCompat that aliases payload.memory as it is, without the skeleton
\* and the empty list it falls back to
withUiCompatNoFallback(b) ==
    LET obj == b.obj
        mem == Get(obj, "memory")
    IN  IF ~Truthy(obj) \/ obj.t # "object" THEN b
        ELSE IF Truthy(mem) /\ mem.t \in {"object", "array"}
        THEN LET today == Get(mem, "today")
                 days == Get(mem, "days")
             IN  [b EXCEPT !.obj = AddKeys(obj,
                    ("history" :> Obj([today |-> Nullish(today, Null),
                                       days |-> Nullish(days, Null)]))
                    @@ ("_historyDebug" :>
                          historyDebug(today, IF IsArray(days) THEN Len(days.a) ELSE 0,
                                       "payload.memory")))]
        ELSE LET today == Day(heap[historyStore.today])
                 days == Arr([i \in 1..Len(historyStore.days) |->
                                 Day(heap[historyStore.days[i]])])
             IN  [b EXCEPT !.obj = AddKeys(obj,
                    ("history" :> Obj([today |-> today, days |-> days]))
                    @@ ("_historyDebug" :>
                          historyDebug(today, Len(historyStore.days),
                                       "server.history")))]

\* withUiCompat(state) on the object b.obj of identity b.ref: it assigns the
\* keys history and _historyDebug of that very object
withUiCompat(b) ==
    LET obj == b.obj
        mem == Get(obj, "memory")
    IN  IF ~Truthy(obj) \/ obj.t # "object" THEN b
        ELSE IF Truthy(mem) /\ mem.t \in {"object", "array"}
        THEN LET today == Get(mem, "today")
                 days == Get(mem, "days")
             IN  [b EXCEPT !.obj = AddKeys(obj,
                    ("history" :> Obj([today |-> IF Truthy(today) THEN today
                                                 ELSE Skeleton,
                                       days |-> IF IsArray(days) THEN days
                                                ELSE Arr(<<>>)]))
                    @@ ("_historyDebug" :>
                          historyDebug(today, IF IsArray(days) THEN Len(days.a) ELSE 0,
                                       "payload.memory")))]
        ELSE LET today == Day(heap[historyStore.today])
                 days == Arr([i \in 1..Len(historyStore.days) |->
                                 Day(heap[historyStore.days[i]])])
             IN  [b EXCEPT !.obj = AddKeys(obj,
                    ("history" :> Obj([today |-> today, days |-> days]))
                    @@ ("_historyDebug" :>
                          historyDebug(today, Len(historyStore.days),
                                       "server.history")))]

\* the _server object of the /state response
serverInfo(now) ==
    Obj([now |-> Ms(now), receivedAt |-> latestMeta.receivedAt,
         bytes |-> Ms(latestMeta.bytes)])

(***************************************************************************)
(* Initial state: the module-level code of the variant has run, on an      *)
(* empty DATA_DIR, at Date.now() = 86400000                                *)
(***************************************************************************)
Init ==
    /\ variant \in {"energy", "snapshot0", "snapshot1"}
    /\ clock = 86400000
    /\ steps = 0
    /\ response = NoResponse
    /\ state = InitialState(clock)
    /\ lastEnergyTs = clock
    /\ credited = [ms |-> 0, latest |-> clock]
    /\ latestState = Null
    /\ latestMeta = InitialMeta
    /\ historyStore = InitialHistory
    /\ heap = InitialHeap
    /\ disk = InitialDisk

(***************************************************************************)
(* src/server.js: app.post("/ingest")                                      *)
(***************************************************************************)
EnergyIngest(body, d) ==
    /\ variant = "energy"
    /\ steps < MaxSteps
    /\ steps' = steps + 1
    /\ clock' = clock + d
    /\ LET now == clock + d
           payload == IF Truthy(body) THEN body ELSE EmptyObject
           r == applyIngest(payload, now)
       IN  /\ state' = [r.state EXCEPT
                          !.events = logEvent(@, now, "HW", "Ingest OK", "info")]
           /\ lastEnergyTs' = r.lastEnergyTs
           /\ credited' = [ms |-> credited.ms + dtClampedMs(now),
                           latest |-> Max2(credited.latest, now)]
    /\ response' = [status |-> 200, route |-> "POST /ingest", body |-> [ok |-> TRUE]]
    /\ UNCHANGED <<variant, latestState, latestMeta, historyStore, heap, disk>>

(***************************************************************************)
(* src/server.js: app.get("/state") and app.get("/health")                 *)
(***************************************************************************)
EnergyGetState ==
    /\ variant = "energy"
    /\ steps < MaxSteps
    /\ steps' = steps + 1
    /\ response' = [status |-> 200, route |-> "GET /state", body |-> state]
    /\ UNCHANGED <<variant, clock, state, lastEnergyTs, credited, latestState,
                   latestMeta, historyStore, heap, disk>>

EnergyHealth ==
    /\ variant = "energy"
    /\ steps < MaxSteps
    /\ steps' = steps + 1
    /\ response' = [status |-> 200, route |-> "GET /health",
                    body |-> [ok |-> TRUE, mode |-> "HW", now |-> clock]]
    /\ UNCHANGED <<variant, clock, state, lastEnergyTs, credited, latestState,
                   latestMeta, historyStore, heap, disk>>

(***************************************************************************)
(* part_000: app.post("/ingest")                                           *)
(***************************************************************************)
Store0Ingest(payload, d, ok) ==
    /\ variant = "snapshot0"
    /\ steps < MaxSteps
    /\ steps' = steps + 1
    /\ clock' = clock + d
    /\ IF InvalidPayload(payload)
       THEN /\ response' = invalidResponse
            /\ UNCHANGED <<latestState, latestMeta, disk>>
       ELSE LET now == clock + d
                meta == [receivedAt |-> Ms(now), bytes |-> JsonLen(payload)]
            IN  /\ latestState' = payload
                /\ latestMeta' = meta
                /\ disk' = [disk EXCEPT !.state = saveJsonSafe(@, payload, ok)]
                /\ response' = ingestResponse(meta, ok)
    /\ UNCHANGED <<variant, state, lastEnergyTs, credited, historyStore, heap>>

(***************************************************************************)
(* part_001: app.post("/ingest")                                           *)
(***************************************************************************)
Store1Ingest(payload, d, ok) ==
    /\ variant = "snapshot1"
    /\ steps < MaxSteps
    /\ steps' = steps + 1
    /\ clock' = clock + d
    /\ IF InvalidPayload(payload)
       THEN /\ response' = invalidResponse
            /\ UNCHANGED <<latestState, latestMeta, historyStore, heap, disk>>
       ELSE LET now == clock + d
                meta == [receivedAt |-> Ms(now), bytes |-> JsonLen(payload)]
                build == ~Truthy(Get(payload, "memory"))
                b == IF build THEN buildServerHistoryFromPayload(payload, now)
                     ELSE [historyStore |-> historyStore, heap |-> heap]
                disk1 == IF build
                         THEN [disk EXCEPT !.history =
                                 saveJsonSafe(@, HistoryJson(b.historyStore, b.heap),
                                              ok)]
                         ELSE disk
            IN  /\ latestState' = payload
                /\ latestMeta' = meta
                /\ historyStore' = b.historyStore
                /\ heap' = b.heap
                /\ disk' = [disk1 EXCEPT !.state = saveJsonSafe(@, payload, ok)]
                /\ response' = ingestResponse(meta, ok)
    /\ UNCHANGED <<variant, state, lastEnergyTs, credited>>

(***************************************************************************)
(* part_000 / part_001: the process is restarted; module state is rebuilt  *)
(* and loadLatestFromDisk() runs 30 s later                                *)
(***************************************************************************)
Restart0 ==
    /\ variant = "snapshot0"
    /\ steps < MaxSteps
    /\ steps' = steps + 1
    /\ clock' = clock + 30000
    /\ LET l == loadLatestFromDisk0(disk, clock + 30000)
       IN  /\ latestState' = l.latestState
           /\ latestMeta' = l.latestMeta
    /\ response' = NoResponse
    /\ UNCHANGED <<variant, state, lastEnergyTs, credited, historyStore, heap, disk>>

Restart1 ==
    /\ variant = "snapshot1"
    /\ steps < MaxSteps
    /\ steps' = steps + 1
    /\ clock' = clock + 30000
    /\ LET l == loadLatestFromDisk(disk, clock + 30000)
       IN  /\ latestState' = l.latestState
           /\ latestMeta' = l.latestMeta
           /\ historyStore' = l.historyStore
           /\ heap' = l.heap
    /\ response' = NoResponse
    /\ UNCHANGED <<variant, state, lastEnergyTs, credited, disk>>

(***************************************************************************)
(* part_001: app.get("/state") and app.get("/health")                      *)
(***************************************************************************)
Store1GetState ==
    /\ variant = "snapshot1"
    /\ steps < MaxSteps
    /\ steps' = steps + 1
    /\ LET base == IF Truthy(latestState) THEN spread(latestState)
                   ELSE [ref |-> "new", obj |-> makeEmptyState(clock)]
           out == withUiCompat(base)
       IN  /\ response' =
                [status |-> 200, route |-> "GET /state",
                 body |-> AddKeys(out.obj,
                             ("_server" :> serverInfo(clock))
                             @@ ("_waiting" :> Bool(~Truthy(latestState))))]
           \* the writes of withUiCompat reach the stored object only when
           \* `base` is that object
           /\ latestState' = IF out.ref = "latestState" THEN out.obj ELSE latestState
    /\ UNCHANGED <<variant, clock, state, lastEnergyTs, credited, latestMeta,
                   historyStore, heap, disk>>

Store1Health ==
    /\ variant = "snapshot1"
    /\ steps < MaxSteps
    /\ steps' = steps + 1
    /\ LET today == heap[historyStore.today]
       IN  response' =
             [status |-> 200, route |-> "GET /health",
              body |-> [ok |-> TRUE,
                        hasState |-> Truthy(latestState),
                        receivedAt |-> latestMeta.receivedAt,
                        bytes |-> latestMeta.bytes,
                        history |->
                            [todayKey |-> IF Truthy(today.key) THEN today.key ELSE Null,
                             daysCount |-> Len(historyStore.days),
                             todaySamples |->
                                 Nullish(Get(today.totals, "samples"), Null)],
                        waiting |-> ~Truthy(latestState)]]
    /\ UNCHANGED <<variant, clock, state, lastEnergyTs, credited, latestState,
                   latestMeta, historyStore, heap, disk>>

(***************************************************************************)
(* part_000: app.get("/state") and app.get("/health")                      *)
(***************************************************************************)
Store0GetState ==
    /\ variant = "snapshot0"
    /\ steps < MaxSteps
    /\ steps' = steps + 1
    /\ response' =
         IF ~Truthy(latestState)
         THEN [status |-> 503, route |-> "GET /state",
               body |-> [error |-> "No state ingested yet"]]
         ELSE [status |-> 200, route |-> "GET /state",
               body |-> AddKeys(latestState, "_server" :> serverInfo(clock))]
    /\ UNCHANGED <<variant, clock, state, lastEnergyTs, credited, latestState,
                   latestMeta, historyStore, heap, disk>>

Store0Health ==
    /\ variant = "snapshot0"
    /\ steps < MaxSteps
    /\ steps' = steps + 1
    /\ response' =
         [status |-> 200, route |-> "GET /health",
          body |-> [ok |-> TRUE, hasState |-> Truthy(latestState),
                    receivedAt |-> latestMeta.receivedAt,
                    bytes |-> latestMeta.bytes]]
    /\ UNCHANGED <<variant, clock, state, lastEnergyTs, credited, latestState,
                   latestMeta, historyStore, heap, disk>>

NextEnergy ==
    \/ \E body \in NonObjects \cup EnergyPayloads, d \in ClockSteps :
          EnergyIngest(body, d)
    \/ EnergyGetState
    \/ EnergyHealth

NextStore ==
    \/ \E payload \in NonObjects \cup StorePayloads, d \in StoreClockSteps,
          ok \in BOOLEAN :
          Store0Ingest(payload, d, ok)
    \/ \E payload \in NonObjects \cup StorePayloads, d \in StoreClockSteps,
          ok \in BOOLEAN :
          Store1Ingest(payload, d, ok)
    \/ Restart0
    \/ Restart1
    \/ Store0GetState
    \/ Store0Health
    \/ Store1GetState
    \/ Store1Health

Next == NextEnergy \/ NextStore

\* every variant
Spec == Init /\ [][Next]_vars

\* src/server.js alone
InitEnergy == Init /\ variant = "energy"
SpecEnergy == InitEnergy /\ [][NextEnergy]_vars

\* src/server.js on a host whose clock never steps backwards
ForwardClockSteps == {d \in ClockSteps : d >= 0}
NextEnergyForward ==
    \/ \E body \in NonObjects \cup EnergyPayloads, d \in ForwardClockSteps :
          EnergyIngest(body, d)
    \/ EnergyGetState
    \/ EnergyHealth
SpecEnergyForward == InitEnergy /\ [][NextEnergyForward]_vars

\* part_000 and part_001 alone
InitStore == Init /\ variant \in {"snapshot0", "snapshot1"}
SpecStore == InitStore /\ [][NextStore]_vars

(***************************************************************************)
(* Properties                                                              *)
(***************************************************************************)
SeriesNames == {"temperature", "light", "energyIn", "energyOut", "brainRisk"}

zeroTotals == [energyInWh |-> 0, energyOutWh |-> 0, energyNetWh |-> 0]

\* new is old, or old with one sample stamped `now` appended and, when old
\* was full, without its first entry
FifoAppend(old, new, now) ==
    /\ Len(new) = Min2(Len(old) + 1, MaxSeries)
    /\ new[Len(new)].t = now
    /\ IF Len(old) = MaxSeries
       THEN SubSeq(new, 1, MaxSeries - 1) = SubSeq(old, 2, MaxSeries)
       ELSE SubSeq(new, 1, Len(old)) = old

\* the open day record of part_001
storeToday == heap[historyStore.today]

\* C1: every series of today holds at most MaxSeries samples (the 2000 of
\* the code, scaled), in src/server.js and in part_001; an ingest that stays
\* in the same day record leaves a series as it was or appends one sample
\* stamped with the ingest's time, dropping the oldest entry when the series
\* was full and keeping the others in order; the series of estimated powers
\* of src/server.js get a sample on every ingest.
C1_SeriesBoundedFifo ==
    [][ /\ \A s \in SeriesNames :
             /\ Len(state'.memory.today[s]) <= MaxSeries
             /\ Len(heap'[historyStore'.today][s]) <= MaxSeries
        /\ ((\E body \in NonObjects \cup EnergyPayloads, d \in ClockSteps :
                EnergyIngest(body, d))
            /\ state'.memory.today.key = state.memory.today.key)
             => /\ \A s \in {"temperature", "light", "brainRisk"} :
                      \/ state'.memory.today[s] = state.memory.today[s]
                      \/ FifoAppend(state.memory.today[s], state'.memory.today[s],
                                    clock')
                /\ \A s \in {"energyIn", "energyOut"} :
                      FifoAppend(state.memory.today[s], state'.memory.today[s], clock')
        /\ ((\E payload \in StorePayloads, d \in StoreClockSteps, ok \in BOOLEAN :
                Store1Ingest(payload, d, ok))
            /\ historyStore'.today = historyStore.today)
             => \A s \in SeriesNames :
                   \/ heap'[historyStore'.today][s] = storeToday[s]
                   \/ FifoAppend(storeToday[s], heap'[historyStore'.today][s], clock')
      ]_vars

\* a series of src/server.js that has overflowed: more ingests than the cap,
\* all in one day, and the series full with its samples in time order
C1_Witness ==
    /\ variant = "energy"
    /\ steps > MaxSeries
    /\ state.memory.days = <<>>
    /\ Len(state.memory.today.energyOut) = MaxSeries
    /\ state.memory.today.energyOut[1].t < state.memory.today.energyOut[MaxSeries].t

\* C2: an ingest of src/server.js whose day-key differs from today.key
\* appends the previous today record to days, keeps the newest MaxDays
\* records of days (the 21 of the code, scaled), and leaves a today under the
\* new key that holds nothing but this ingest's own samples and zero totals;
\* an ingest whose day-key equals today.key changes neither days nor
\* today.key.
C2_Rollover ==
    [][ variant = "energy" =>
          LET key == nowKey(clock')
              pushed == Append(state.memory.days, state.memory.today)
          IN  IF key # state.memory.today.key
              THEN /\ state'.memory.days =
                        SubSeq(pushed, Max2(1, Len(pushed) - MaxDays + 1), Len(pushed))
                   /\ Len(state'.memory.days) <= MaxDays
                   /\ state'.memory.today.key = key
                   /\ state'.memory.today.totals = zeroTotals
                   /\ \A s \in SeriesNames :
                        /\ Len(state'.memory.today[s]) <= 1
                        /\ \A i \in 1..Len(state'.memory.today[s]) :
                              state'.memory.today[s][i].t = clock'
              ELSE /\ state'.memory.days = state.memory.days
                   /\ state'.memory.today.key = state.memory.today.key
      ]_vars

\* days has overflowed: it is full, its oldest record is not the first day
\* of the run, and its newest record holds the samples of its day
C2_Witness ==
    /\ variant = "energy"
    /\ Len(state.memory.days) = MaxDays
    /\ steps > MaxDays
    /\ state.memory.days[1].key # nowKey(86400000)
    /\ state.memory.days[MaxDays].key # state.memory.today.key
    /\ state.memory.days[MaxDays].energyOut # <<>>

\* C3: in src/server.js today.totals.energyNetWh is energyInWh minus
\* energyOutWh in every reachable state.
C3_NetIsInMinusOut ==
    variant = "energy" =>
        state.memory.today.totals.energyNetWh =
            state.memory.today.totals.energyInWh - state.memory.today.totals.energyOutWh

\* both totals have grown
C3_Witness ==
    /\ variant = "energy"
    /\ state.memory.today.totals.energyInWh > 0
    /\ state.memory.today.totals.energyOutWh > 0
    /\ state.memory.today.totals.energyNetWh > 0

\* C4: a POST /ingest of src/server.js whose body is no object is answered
\* with a client error and leaves time, world, energy, device and memory as
\* they were.
C4_NonObjectRejected ==
    [][ \A body \in NonObjects, d \in ClockSteps :
          EnergyIngest(body, d) =>
              /\ response'.status = 400
              /\ state'.time = state.time
              /\ state'.world = state.world
              /\ state'.energy = state.energy
              /\ state'.device = state.device
              /\ state'.memory = state.memory
      ]_vars

\* C5: a POST /ingest of part_000 or part_001 whose payload is absent, null
\* or no object is answered with 400 and leaves latestState, latestMeta,
\* historyStore and both files as they were.
C5_InvalidPayloadRejected ==
    [][ \A payload \in NonObjects, d \in StoreClockSteps, ok \in BOOLEAN :
          (Store0Ingest(payload, d, ok) \/ Store1Ingest(payload, d, ok)) =>
              /\ response'.status = 400
              /\ latestState' = latestState
              /\ latestMeta' = latestMeta
              /\ historyStore' = historyStore
              /\ heap' = heap
              /\ disk' = disk
      ]_vars

\* a rejection while a payload, its history and both files are in place
C5_Witness ==
    /\ variant = "snapshot1"
    /\ response.status = 400
    /\ latestState # Null
    /\ latestMeta.bytes > 0
    /\ Len(historyStore.days) > 0
    /\ disk.state # Null
    /\ disk.history # Null

\* a payload value that is no valid finite number: absent, null, the empty
\* string, a non-numeric string
NotANumber(v) ==
    \/ v.t \in {"undefined", "null"}
    \/ (v.t = "string" /\ v.s \in {"", "abc"})

\* C6: an ingest of src/server.js whose payload omits one of box
\* temperature, humidity, outdoor temperature, illuminance, or carries no
\* valid finite number for it, leaves every stored copy of that field as it
\* was.
C6_StickyFields ==
    [][ \A body \in NonObjects \cup EnergyPayloads, d \in ClockSteps :
          EnergyIngest(body, d) =>
              LET env == Get(body, "env")
                  we == state.world.environment
                  we2 == state'.world.environment
                  dev == state.device
                  dev2 == state'.device
              IN  /\ NotANumber(Get(env, "boxTempC")) =>
                        /\ we2.boxTempC = we.boxTempC
                        /\ we2.indoorTempC = we.indoorTempC
                        /\ dev2.temperature = dev.temperature
                        /\ dev2.sensors.dht22.tempC = dev.sensors.dht22.tempC
                  /\ NotANumber(Get(env, "indoorHumPct")) =>
                        /\ we2.indoorHumPct = we.indoorHumPct
                        /\ dev2.humidity = dev.humidity
                        /\ dev2.sensors.dht22.humidity = dev.sensors.dht22.humidity
                  /\ NotANumber(Get(env, "outdoorTempC")) =>
                        /\ we2.outdoorTempC = we.outdoorTempC
                        /\ we2.airTempC = we.airTempC
                        /\ dev2.sensors.ds18b20.tempC = dev.sensors.ds18b20.tempC
                  /\ (\A alias \in {"lightLux", "lux", "light"} :
                         NotANumber(Get(env, alias))) =>
                        /\ we2.light = we.light
                        /\ we2.lightLux = we.lightLux
                        /\ we2.lux = we.lux
                        /\ dev2.light = dev.light
                        /\ dev2.sensors.bh1750.lux = dev.sensors.bh1750.lux
      ]_vars

MetricPaths ==
    [temperature |-> TemperaturePaths, light |-> LuxPaths, energyIn |-> PInPaths,
     energyOut |-> POutPaths, brainRisk |-> RiskPaths]

\* the metric is under none of its aliases, or what is there parses to no
\* finite number
MetricMissing(payload, paths) ==
    LET v == pick(payload, paths, Undef)
    IN  v.t = "undefined" \/ ~IsFinite(Number(v))

\* C7: an ingest of part_001 appends no sample to the series of a tracked
\* metric that is under none of its aliases in the payload or does not parse
\* as a finite number: the series of today is what that day record held
\* before (nothing, for a new day record).
C7_MissingMetricNoSample ==
    [][ \A payload \in StorePayloads, d \in StoreClockSteps, ok \in BOOLEAN :
          Store1Ingest(payload, d, ok) =>
              \A m \in SeriesNames :
                  MetricMissing(payload, MetricPaths[m]) =>
                      LET ref == historyStore'.today
                      IN  heap'[ref][m] =
                              IF ref \in DOMAIN heap THEN heap[ref][m] ELSE <<>>
      ]_vars

\* the table of the power-path classifier as the claim words it
ClaimedTable(pIn, pOut) ==
    IF pIn > 50000 /\ pOut > 50000
    THEN [power_state |-> "MIXED", power_path_state |-> "SOLAR_TO_LOAD"]
    ELSE IF pIn > 50000
    THEN [power_state |-> "CHARGING", power_path_state |-> "SOLAR_TO_BATTERY"]
    ELSE IF pOut > 50000
    THEN [power_state |-> "DISCHARGING", power_path_state |-> "BATTERY_TO_LOAD"]
    ELSE [power_state |-> "IDLE", power_path_state |-> "UNKNOWN"]

\* the same table with the labels the server writes
WrittenTable(pIn, pOut) ==
    IF pIn > 50000 /\ pOut > 50000
    THEN [power_state |-> "MIXED", power_path_state |-> "SOLAR_TO_LOAD"]
    ELSE IF pIn > 50000
    THEN [power_state |-> "CHARGING", power_path_state |-> "SOLAR_TO_BATT"]
    ELSE IF pOut > 50000
    THEN [power_state |-> "DISCHARGING", power_path_state |-> "BATT_TO_LOAD"]
    ELSE [power_state |-> "IDLE", power_path_state |-> "UNKNOWN"]

\* C8 as claimed: after every ingest of src/server.js the pair (power_state,
\* power_path_state) is the row of the table for the two estimated powers,
\* with the path labels SOLAR_TO_BATTERY and BATTERY_TO_LOAD.
C8_ClaimedLabels ==
    (variant = "energy" /\ steps > 0) =>
        state.energy.states =
            ClaimedTable(state.device.power.solarInW, state.device.power.loadW)

\* C8 amended: after every ingest of src/server.js the pair (power_state,
\* power_path_state) is the row of the table for the two estimated powers
\* against the 0.05 W deadband, the path labels being SOLAR_TO_LOAD,
\* SOLAR_TO_BATT, BATT_TO_LOAD and UNKNOWN.
C8_WrittenLabels ==
    (variant = "energy" /\ steps > 0) =>
        state.energy.states =
            WrittenTable(state.device.power.solarInW, state.device.power.loadW)

\* both estimated powers above the deadband, classified MIXED
C8_Witness ==
    /\ variant = "energy"
    /\ steps > 0
    /\ state.device.power.solarInW > 50000
    /\ state.device.power.loadW > 50000
    /\ state.energy.states.power_state = "MIXED"

\* C9 as claimed: an ingest of src/server.js carrying illuminance 0 and no
\* fan duty leaves power_state IDLE, power_path_state UNKNOWN and today's
\* three energy totals as they were.
C9_DarkIsIdle ==
    [][ \A d \in ClockSteps :
          EnergyIngest(DarkPayload, d) =>
              /\ state'.energy.states =
                   [power_state |-> "IDLE", power_path_state |-> "UNKNOWN"]
              /\ state'.memory.today.totals = state.memory.today.totals
      ]_vars

\* C9 amended: an ingest of src/server.js carrying illuminance 0 and no fan
\* duty leaves power_state DISCHARGING and power_path_state BATT_TO_LOAD (the
\* estimated load is the 0.37 W of the controller); within the day it leaves
\* energyInWh as it was and adds 0.37 W times the time since the previous
\* ingest, at most 60 s and nothing for a clock that has not advanced, to
\* energyOutWh; across a day rollover it leaves the three totals at zero.
C9_DarkIsDischarging ==
    [][ \A d \in ClockSteps :
          EnergyIngest(DarkPayload, d) =>
              LET t == state.memory.today.totals
                  t2 == state'.memory.today.totals
                  dtS == Min2(Max2(clock' - lastEnergyTs, 0), 60000) \div 1000
              IN  /\ state'.energy.states =
                       [power_state |-> "DISCHARGING", power_path_state |-> "BATT_TO_LOAD"]
                  /\ IF nowKey(clock') = state.memory.today.key
                     THEN /\ t2.energyInWh = t.energyInWh
                          /\ t2.energyOutWh = t.energyOutWh + 370000 * dtS
                          /\ t2.energyNetWh = t2.energyInWh - t2.energyOutWh
                     ELSE t2 = zeroTotals
      ]_vars

\* the last sample of today's light series is v at the time of the last
\* ingest: that ingest carried illuminance v
LastIngestLux(v) ==
    LET light == state.memory.today.light
    IN  /\ light # <<>>
        /\ light[Len(light)].v = v
        /\ light[Len(light)].t = state.time.now

\* two consecutive dark ingests, time having passed between them
C9_Witness ==
    /\ variant = "energy"
    /\ LastIngestLux(0)
    /\ Len(state.memory.today.light) >= 2
    /\ state.memory.today.light[Len(state.memory.today.light) - 1].v = 0
    /\ state.energy.states.power_state = "DISCHARGING"
    /\ state.memory.today.totals.energyOutWh > 0

\* C10 as claimed: an ingest of src/server.js carrying illuminance LUX_FULL
\* and fan duty 0 leaves power_state CHARGING.
C10_FullSunIsCharging ==
    [][ \A d \in ClockSteps :
          EnergyIngest(SunPayload, d) =>
              state'.energy.states.power_state = "CHARGING"
      ]_vars

\* C10 amended: an ingest of src/server.js carrying illuminance LUX_FULL and
\* fan duty 0 leaves power_state MIXED and power_path_state SOLAR_TO_LOAD:
\* the estimated input is the panel's 3 W and the estimated load the 0.37 W
\* of the controller, both above the deadband.
C10_FullSunIsMixed ==
    [][ \A d \in ClockSteps :
          EnergyIngest(SunPayload, d) =>
              /\ state'.energy.states =
                   [power_state |-> "MIXED", power_path_state |-> "SOLAR_TO_LOAD"]
              /\ state'.device.power.solarInW = 3000000
              /\ state'.device.power.loadW = 370000
      ]_vars

\* the last ingest carried full-scale illuminance with the fan off
C10_Witness ==
    /\ variant = "energy"
    /\ LastIngestLux(300000)
    /\ state.device.fan = FALSE
    /\ state.energy.states.power_state = "MIXED"

\* estimated powers handed to integrateEnergy, microwatts: none, the load of
\* the controller, the panel at full sun
SomePowers == {0, 370000, 3000000}

\* C11: integrateEnergy of src/server.js called with a timestamp equal to or
\* earlier than the integrator's baseline adds nothing to energyInWh and
\* energyOutWh, for every pair of powers: after any ingest a further call at
\* the same or an earlier timestamp leaves both totals as they are, and an
\* ingest whose clock has not advanced past the baseline leaves both totals
\* as they were (at zero, when it rolls the day over).
C11_NoElapsedTimeAddsNothing ==
    [][ variant = "energy" =>
          /\ \A pinW \in SomePowers, poutW \in SomePowers, back \in {0, 30000} :
                LET r == integrateEnergy(state', lastEnergyTs', pinW, poutW,
                                         lastEnergyTs' - back)
                IN  /\ r.state.memory.today.totals.energyInWh =
                          state'.memory.today.totals.energyInWh
                    /\ r.state.memory.today.totals.energyOutWh =
                          state'.memory.today.totals.energyOutWh
          /\ clock' <= lastEnergyTs =>
                LET base == IF nowKey(clock') = state.memory.today.key
                            THEN state.memory.today.totals ELSE zeroTotals
                IN  /\ state'.memory.today.totals.energyInWh = base.energyInWh
                    /\ state'.memory.today.totals.energyOutWh = base.energyOutWh
      ]_vars

\* an ingest whose clock was set back, within the day, after energy had been
\* accumulated: the totals are still there
C11_Witness ==
    /\ variant = "energy"
    /\ Len(state.memory.today.energyOut) >= 2
    /\ LET s == state.memory.today.energyOut
       IN  s[Len(s)].t < s[Len(s) - 1].t
    /\ state.time.now = lastEnergyTs
    /\ state.memory.today.totals.energyInWh > 0
    /\ state.memory.today.totals.energyOutWh > 0

\* C12: one ingest of src/server.js, whatever the time since the previous
\* one, raises energyInWh by at most the estimated input power times 60 s and
\* energyOutWh by at most the estimated load power times 60 s (energies in
\* microwatt-seconds).
C12_StepAtMostOneMinute ==
    [][ variant = "energy" =>
          LET base == IF nowKey(clock') = state.memory.today.key
                      THEN state.memory.today.totals ELSE zeroTotals
              t2 == state'.memory.today.totals
          IN  /\ t2.energyInWh - base.energyInWh <= state'.device.power.solarInW * 60
              /\ t2.energyOutWh - base.energyOutWh <= state'.device.power.loadW * 60
              /\ t2.energyInWh >= base.energyInWh
              /\ t2.energyOutWh >= base.energyOutWh
      ]_vars

\* an ingest 90 s after the previous one, within the day, credited with
\* exactly 60 s of both powers
C12_Witness ==
    /\ variant = "energy"
    /\ Len(state.memory.today.energyOut) >= 2
    /\ LET s == state.memory.today.energyOut
       IN  s[Len(s)].t - s[Len(s) - 1].t = 90000
    /\ state.device.power.solarInW > 0
    /\ state.memory.today.totals.energyInWh = state.device.power.solarInW * 60
    /\ state.memory.today.totals.energyOutWh = state.device.power.loadW * 60

daysByValue(hs, hp) == [i \in 1..Len(hs.days) |-> hp[hs.days[i]]]

\* C14: a restart of part_001 that finds on disk the latest-state.json and
\* history.json written from the state in memory leaves latestState, today
\* and days equal in value to what they were, and today is the same record
\* as an entry of days exactly where it was before the restart.
C14_RoundTrip ==
    [][ ( /\ Restart1
          /\ latestState # Null
          /\ disk.state = latestState
          /\ disk.history = HistoryJson(historyStore, heap) ) =>
              /\ latestState' = latestState
              /\ heap'[historyStore'.today] = heap[historyStore.today]
              /\ daysByValue(historyStore', heap') = daysByValue(historyStore, heap)
              /\ \A i \in 1..Len(historyStore.days) :
                    (historyStore'.days[i] = historyStore'.today)
                        <=> (historyStore.days[i] = historyStore.today)
      ]_vars

\* C15: GET /state of part_001 leaves the stored latestState with the keys
\* and values it had (no history and no _historyDebug key is added to it) and
\* leaves historyStore, its day records and latestMeta as they were, whether
\* the stored payload has a memory object or not.
C15_ReadDoesNotMutate ==
    [][ Store1GetState =>
          /\ latestState' = latestState
          /\ Truthy(latestState') =>
                /\ "history" \notin DOMAIN latestState'.f
                /\ "_historyDebug" \notin DOMAIN latestState'.f
          /\ historyStore' = historyStore
          /\ heap' = heap
          /\ latestMeta' = latestMeta
      ]_vars

\* a /state response built from a stored payload with a memory object: the
\* response carries the history alias, the stored payload does not
C15_Witness ==
    /\ variant = "snapshot1"
    /\ response.route = "GET /state"
    /\ latestState = MemoryPayload
    /\ "history" \in DOMAIN response.body.f
    /\ "_historyDebug" \in DOMAIN response.body.f
    /\ "history" \notin DOMAIN latestState.f
    /\ Len(historyStore.days) > 0

\* C16: every /state response of part_001 has a history alias whose today
\* and days are present and not null; when nothing has been ingested and
\* nothing was loaded from disk, the response is the waiting view, marked
\* _waiting = true, whose history.today has the five series present and empty
\* and whose history.days is empty.
C16_HistoryNeverNull ==
    [][ Store1GetState =>
          LET body == response'.body
              history == Get(body, "history")
          IN  /\ response'.status = 200
              /\ Get(history, "today").t \notin {"undefined", "null"}
              /\ Get(history, "days").t \notin {"undefined", "null"}
              /\ (latestState = Null /\ historyStore = InitialHistory
                    /\ heap = InitialHeap) =>
                    /\ Get(body, "_waiting") = Bool(TRUE)
                    /\ Get(body, "world").t = "object"
                    /\ Get(history, "today").t = "day"
                    /\ \A n \in SeriesNames : Get(history, "today").rec[n] = <<>>
                    /\ Get(history, "days") = Arr(<<>>)
      ]_vars

\* the waiting view served on a cold start
C16_Witness ==
    /\ variant = "snapshot1"
    /\ response.route = "GET /state"
    /\ latestState = Null
    /\ historyStore = InitialHistory
    /\ Get(response.body, "_waiting") = Bool(TRUE)
    /\ Get(Get(response.body, "history"), "today") = Skeleton

\* C17: in part_001 an accepted ingest acknowledges the receivedAt and bytes
\* it stores in latestMeta, bytes being the serialized size of the payload it
\* stores as latestState; every /state and /health response carries the
\* receivedAt and bytes of latestMeta; and nothing but an accepted ingest
\* changes latestMeta - so the metadata on a response is that of the
\* acknowledgement of the most recent accepted ingest.
C17_MetadataIsLastAck ==
    [][ variant = "snapshot1" =>
          LET accepted == \E payload \in StorePayloads, d \in StoreClockSteps,
                             ok \in BOOLEAN : Store1Ingest(payload, d, ok)
          IN  /\ accepted =>
                    /\ response'.body.receivedAt = latestMeta'.receivedAt
                    /\ response'.body.bytes = latestMeta'.bytes
              /\ Truthy(latestState') => latestMeta'.bytes = JsonLen(latestState')
              /\ Store1GetState =>
                    /\ Get(Get(response'.body, "_server"), "receivedAt") =
                          latestMeta.receivedAt
                    /\ Get(Get(response'.body, "_server"), "bytes") =
                          Ms(latestMeta.bytes)
              /\ Store1Health =>
                    /\ response'.body.receivedAt = latestMeta.receivedAt
                    /\ response'.body.bytes = latestMeta.bytes
              /\ ~accepted => latestMeta' = latestMeta
      ]_vars

\* the value under the first of the dotted paths whose value is present and
\* converts to a finite number; NaN when there is none
RECURSIVE FirstFinite(_, _)
FirstFinite(obj, paths) ==
    IF paths = <<>> THEN NaN
    ELSE LET v == Walk(obj, Head(paths))
         IN  IF v.t \notin {"undefined", "null"} /\ IsFinite(Number(v))
             THEN Number(v)
             ELSE FirstFinite(obj, Tail(paths))

\* C18: when a value that is present and a finite number stands under one of
\* the aliases of a field, the value used is the one under the first such
\* alias in lookup order, even when an earlier alias holds a value that is
\* no finite number: in src/server.js the stored illuminance is that value,
\* in part_001 the sample appended to the metric's series has that value
\* (its magnitude, for the load power).
C18_FirstFiniteAliasWins ==
    [][ /\ \A body \in EnergyPayloads, d \in ClockSteps :
              EnergyIngest(body, d) =>
                  LET lux == FirstFinite(Get(body, "env"),
                                         << <<"lightLux">>, <<"lux">>, <<"light">> >>)
                  IN  IsFinite(lux) =>
                          /\ state'.world.environment.lux = lux
                          /\ state'.device.sensors.bh1750.lux = lux
        /\ \A payload \in StorePayloads, d \in StoreClockSteps, ok \in BOOLEAN :
              (Store1Ingest(payload, d, ok) /\ ~Truthy(Get(payload, "memory"))) =>
                  \A m \in SeriesNames :
                      LET v == FirstFinite(payload, MetricPaths[m])
                          series == heap'[historyStore'.today][m]
                      IN  IsFinite(v) =>
                              /\ series # <<>>
                              /\ series[Len(series)].t = clock'
                              /\ series[Len(series)].v =
                                    IF m = "energyOut" THEN MathAbs(v.n) ELSE v.n
      ]_vars

\* C19: an ingest of src/server.js whose day-key differs from today.key
\* leaves the integrator baseline at its own timestamp and the totals of the
\* new day (energyInWh, energyOutWh, energyNetWh), the mirrored
\* energy.totals.wh_*_today and the balance at exactly zero, whatever time
\* has passed since the previous ingest and whatever the estimated powers.
C19_RolloverStartsAtZero ==
    [][ (variant = "energy" /\ nowKey(clock') # state.memory.today.key) =>
          /\ lastEnergyTs' = clock'
          /\ state'.memory.today.key = nowKey(clock')
          /\ state'.memory.today.totals = zeroTotals
          /\ state'.energy.totals =
               [wh_in_today |-> 0, wh_out_today |-> 0, wh_net_today |-> 0]
          /\ state'.device.power.balanceWh = 0
      ]_vars

\* the state right after a rollover in full sun, a day after the last ingest
\* of the previous day: powers above zero, one sample in the new day, totals
\* at zero
C19_Witness ==
    /\ variant = "energy"
    /\ Len(state.memory.days) >= 1
    /\ LET prev == state.memory.days[Len(state.memory.days)]
       IN  /\ prev.energyOut # <<>>
           /\ prev.energyOut[Len(prev.energyOut)].t < state.time.now
    /\ Len(state.memory.today.energyOut) = 1
    /\ state.memory.today.energyOut[1].t = state.time.now
    /\ state.device.power.solarInW > 0
    /\ state.device.power.loadW > 0
    /\ state.memory.today.totals = zeroTotals
    /\ lastEnergyTs = state.time.now

\* C20: in part_001 the open today record is never an element of
\* historyStore.days, and days changes only at an ingest whose day-key
\* differs from the key of today, which appends the record that was today
\* (the oldest records leaving when days is full).
C20_DaysHoldsClosedOnly ==
    [][ variant = "snapshot1" =>
          /\ \A i \in 1..Len(historyStore'.days) :
                historyStore'.days[i] # historyStore'.today
          /\ IF /\ \E payload \in StorePayloads, d \in StoreClockSteps,
                      ok \in BOOLEAN :
                      /\ Store1Ingest(payload, d, ok)
                      /\ ~Truthy(Get(payload, "memory"))
                /\ Truthy(storeToday.key)
                /\ toPragueDayKey(clock') # storeToday.key
             THEN daysByValue(historyStore', heap') =
                     clampHistoryLen(Append(daysByValue(historyStore, heap), storeToday),
                                     MaxDays)
             ELSE daysByValue(historyStore', heap') = daysByValue(historyStore, heap)
      ]_vars

\* C21: in src/server.js the elapsed time that the calls of integrateEnergy
\* have credited to the totals, summed over all calls so far, is at most the
\* largest timestamp they were given minus the baseline the integrator
\* started with, also when timestamps step backwards.
C21_NoSpanCreditedTwice ==
    variant = "energy" => credited.ms <= credited.latest - 86400000

\* the newest entry of a non-empty sequence
Newest(seq) == seq[Len(seq)]

C24_TotalsCopiesAgree ==
    variant = "energy" =>
        /\ state.energy.totals.wh_in_today = state.memory.today.totals.energyInWh
        /\ state.energy.totals.wh_out_today = state.memory.today.totals.energyOutWh
        /\ state.energy.totals.wh_net_today = state.memory.today.totals.energyNetWh
        /\ state.device.power.balanceWh = state.memory.today.totals.energyNetWh

\* energy accumulated in a day that began with a rollover
C24_Witness ==
    /\ variant = "energy"
    /\ Len(state.memory.days) >= 1
    /\ state.memory.today.totals.energyInWh > 0
    /\ state.energy.totals.wh_out_today > 0
    /\ state.device.power.balanceWh > 0

\* C25: in src/server.js on a host whose clock never steps backwards, the
\* day-keys of the records of memory.days are strictly increasing (so
\* pairwise distinct) and each is earlier than memory.today.key.
C25_DayKeysIncrease ==
    variant = "energy" =>
        /\ \A i \in 1..Len(state.memory.days) :
              /\ state.memory.days[i].key < state.memory.today.key
              /\ \A j \in (i + 1)..Len(state.memory.days) :
                    state.memory.days[i].key < state.memory.days[j].key

\* days is full after one rollover per closed day
C25_Witness ==
    /\ variant = "energy"
    /\ Len(state.memory.days) = MaxDays
    /\ state.memory.days[MaxDays].key + 1 = state.memory.today.key
    /\ state.memory.days[1].key < state.memory.days[MaxDays].key

====
